---- MODULE Spec2Model ----
(***************************************************************************)
(* Verification model of the Zendesk backup scripts.                       *)
(*                                                                         *)
(* The repository is a set of independent scripts built from the same      *)
(* primitives, so the model is a set of independent state machines over    *)
(* disjoint groups of variables, one specification per primitive:          *)
(*                                                                         *)
(*   SpecLimiter  RateLimiter.wait_if_needed shared by worker threads      *)
(*   SpecGate     the cache-freshness gates and the record workers         *)
(*   SpecPager    the page loops of the listing endpoints                  *)
(*   SpecFetch    the request helpers: 429 handling, retries, failures     *)
(*   SpecHandler  RateLimiter.handle_rate_limit_response, call by call      *)
(*   SpecBackoff  the handler and wait_if_needed run by the worker threads *)
(*   SpecMain     main(): the backups of one run                           *)
(*   SpecDry      the dry-run switch of the two mutating tools             *)
(*   SpecPub      what reaches the closed-tickets Pub/Sub topic            *)
(*   SpecCursor   the incremental-export cursor and last_run.txt           *)
(*   SpecRun      one run of backup_tickets: workers, counters, log        *)
(*   SpecAsset    the files of the support assets                          *)
(*   SpecLog      the rotation of the users backup's log files             *)
(*                                                                         *)
(* A specification parks the variables of the other groups at a fixed      *)
(* value and never changes them.                                           *)
(***************************************************************************)
EXTENDS Integers, Sequences, FiniteSets, TLC

(***************************************************************************)
(* Bounds of the model.                                                    *)
(***************************************************************************)
\* RateLimiter(max_requests_per_minute): the configured ceiling M.
MaxRequestsPerMinute == 2
\* Worker threads sharing the limiter.
NumWorkers == 2
\* Calls of wait_if_needed started over a behaviour.
MaxCalls == 5
\* The clock runs from 0 to MaxTime seconds, in steps of TickStep seconds
\* (a sleep ends at its own instant, whatever the step).
MaxTime == 125
TickStep == 20
\* Records of one cache directory, and the updated_at values they take.
MaxIds == 1
MaxStamp == 2
\* Page loops: the endpoints of a listing are 1..MaxPage, a page holds up to
\* MaxItems items, and a loop is followed for up to MaxFetches requests.
MaxPage == 3
MaxItems == 2
MaxFetches == 4
\* Request helpers: the requests one call of a helper may send.
MaxRequests == 5
\* handle_rate_limit_response: the calls of one run, the largest retry-after.
MaxHandled == 3
MaxRetryAfter == 2
\* The 429 responses that worker threads hand to the handler in one run.
MaxBackoffs == 1
\* main(): the pages one backup may take.
MaxMainPages == 2
\* Dry-run tools: the users listed, the comments of a ticket.
MaxRecords == 5
\* Pub/Sub: the tickets one publisher handles.
MaxPublished == 6
\* One run of backup_tickets: the tickets its pages list.
MaxRunTickets == 3
\* Support assets: the assets one type lists.
MaxAssets == 3
\* Log rotation: the runs of one day, and the instants of that day.
MaxLogRuns == 7
MaxLogTime == 2

(***************************************************************************)
(* Program constants.                                                      *)
(***************************************************************************)
\* cutoff = now - timedelta(minutes=1)
WindowSeconds == 60
\* wait_time = 61 - (now - oldest_request).total_seconds()
SlackSeconds == 61
\* def fetch_data_with_retries(endpoint, max_retries=3)
max_retries == 3
\* retry_after = int(response.headers.get('retry-after', 60))
DefaultRetryAfter == 60
\* MAX_LOG_FILES = 5
MAX_LOG_FILES == 5

VARIABLES
    \* ---- RateLimiter ----
    clock,            \* datetime.now(), in seconds
    request_times,    \* self.request_times
    lock,             \* self.lock: 0 when free, else the thread holding it
    total_requests,   \* self.total_requests
    wpc,              \* per thread: position inside wait_if_needed
    wnow,             \* per thread: the local `now`
    wwake,            \* per thread: the instant its time.sleep ends
    calls,            \* history: per completed call, its `now`, the timestamp
                      \* it recorded and the instant it returned
    \* ---- cache gate and record workers ----
    gscript,          \* the worker under test (one script, one cache directory)
    cache,            \* the cache directory: record id -> content of <id>.json
    glast,            \* the last worker task: its inputs, gate decision, result
    gcrashed,         \* an exception escaped a worker task and ended the run
    \* ---- page loops ----
    pscript,          \* the page loop under test
    ppc,              \* "loop", or how the loop ended: "done", "raised", "exited"
    endpoint,         \* the endpoint the loop fetches next (NullPage: None)
    previous,         \* previous_end_time / previous_tickets_endpoint
    acc,              \* the accumulator (log): the items appended so far
    served,           \* the items the server has returned so far, numbered 1..served
    fetches,          \* requests of the loop answered so far
    plast,            \* the last response of the server
    selfRun,          \* successive 200 responses whose next_page was the endpoint fetched
    pfetched,         \* the endpoints answered with a page and the items it held, in order
    \* ---- request helpers ----
    fscript,          \* the helper under test
    fpc,              \* "request" while the helper is asking, "done" once it has ended
    attempt,          \* fetch_data_with_retries: the loop variable `attempt`
    retried,          \* the one retry after a 429 has been used
    delays,           \* the wait_time of every backoff sleep, in order
    waits,            \* calls of rate_limiter.wait_if_needed()
    requests,         \* calls of session.get
    n429,             \* 429 responses received
    nhard,            \* non-200, non-429 responses received
    npages,           \* pages of a ticket's audits appended to `events`
    flast,            \* status of the last response (0: none yet)
    outcome,          \* how the helper ended, as its caller sees it
    \* ---- RateLimiter.handle_rate_limit_response ----
    rate_limited_count, \* self.rate_limited_count
    hcalls,           \* calls of handle_rate_limit_response so far
    hlast,            \* the last call: its inputs, what it found, slept and returned
    hpc,              \* per thread: "sleeping" inside handle_rate_limit_response, or "idle"
    hsnap,            \* the last 429 handled: the calls completed when its thread took
                      \* the lock (of wait_if_needed, of the handler), the end of its sleep
    \* ---- main(): the backups of one run ----
    mcur,             \* position in the order of the backups (past the end: all returned)
    mresult,          \* "running", or what main() returned: "ok" (True), "failed" (False)
    mstate,           \* per resource: "pending", "complete", or "aborted" (its loop broke off)
    mpages,           \* per resource: pages its loop has processed
    \* ---- delete_spam_users / redact_email_footers ----
    dtool,            \* the tool under test
    dry_run,          \* the dry_run argument
    dpc,              \* "list", "redact", "done"
    total_count,      \* users seen / comments worked through
    spam_count,       \* users found to be spam / comments found to hold the disclaimer
    simulated,        \* calls of simulate_delete_user
    deletes,          \* DELETE requests sent
    puts,             \* comment-redaction PUT requests sent
    \* ---- closed-tickets Pub/Sub topic ----
    qtool,            \* the publisher under test: the batch script or the cloud function
    qtasks,           \* tickets handled so far
    published,        \* the topic: the status of every ticket published, in order
    qfiles,           \* ticket files the batch script has written
    qrows,            \* log rows the batch script has gathered
    qlast,            \* the last ticket handled: its status, and the counts before it
    qreply,           \* the last HTTP reply of the cloud function (0: none)
    \* ---- the incremental-export cursor ----
    cscript,          \* the ticket backup under test
    cpc,              \* "fetch", "process", "persist", "done", "failed"
    cendpoint,        \* tickets_endpoint (NullPage: None)
    cprevious,        \* previous_end_time
    cursor,           \* last_processed_time / START_TIME
    cpage,            \* the page the worker pool is processing
    cpending,         \* tickets of that page no worker has finished yet
    cfull,            \* the end_time of every page fully processed, in order
    last_run,         \* the content of last_run.txt
    cfetches,         \* requests answered so far
    cerr,             \* the oldest updated_at among the tickets whose row has status
                      \* error (NullPage: none)
    csaved,           \* the log of the run has been saved
    \* ---- backup_tickets: one run, its worker pool, its log ----
    rpc,              \* "fetch", "process", "write", "done"
    rpage,            \* the tickets of the page in the pool: what will happen to each
    rnext,            \* the next ticket of the page executor.map hands to a worker
    rresults,         \* per ticket of the page: the row its task returned (NoRow: not yet)
    rworker,          \* per worker thread: its ticket and the counter value it has loaded
    rlisted,          \* tickets listed by the pages fetched so far
    rpages,           \* pages whose tickets are in the log
    rlog,             \* the list `log`
    total_cached,     \* nonlocal total_cached
    total_downloaded, \* nonlocal total_downloaded
    rlogfile,         \* the record rows of _log.csv
    \* ---- backup_support_assets: the assets of one type ----
    alog,             \* log: per asset processed, its id, file name and whether it was saved
    afiles,           \* the cache directory of the asset type: file name -> content
    \* ---- backup_zendesk_support_users: the logs of one day ----
    lclock,           \* the time of day, as written to the 'Backup Date' row
    lfiles,           \* the log files of the day: 0 is _log_<date>.csv, k is _log_<date>_k.csv
    lhist             \* history: the log every run of the day wrote, in order

limiterVars == <<clock, request_times, lock, total_requests, wpc, wnow, wwake, calls>>
gateVars == <<gscript, cache, glast, gcrashed>>
pagerVars == <<pscript, ppc, endpoint, previous, acc, served, fetches, plast, selfRun, pfetched>>
fetchVars == <<fscript, fpc, attempt, retried, delays, waits, requests, n429, nhard,
               npages, flast, outcome>>
handlerVars == <<rate_limited_count, hcalls, hlast, hpc, hsnap>>
mainVars == <<mcur, mresult, mstate, mpages>>
dryVars == <<dtool, dry_run, dpc, total_count, spam_count, simulated, deletes, puts>>
pubVars == <<qtool, qtasks, published, qfiles, qrows, qlast, qreply>>
cursorVars == <<cscript, cpc, cendpoint, cprevious, cursor, cpage, cpending, cfull,
                last_run, cfetches, cerr, csaved>>
runVars == <<rpc, rpage, rnext, rresults, rworker, rlisted, rpages, rlog, total_cached,
             total_downloaded, rlogfile>>
assetVars == <<alog, afiles>>
logVars == <<lclock, lfiles, lhist>>
vars == <<limiterVars, gateVars, pagerVars, fetchVars, handlerVars, mainVars, dryVars, pubVars, cursorVars, runVars, assetVars, logVars>>

\* What the actions of one part leave alone.
notLimiterVars == <<gateVars, pagerVars, fetchVars, handlerVars, mainVars, dryVars, pubVars, cursorVars, runVars, assetVars, logVars>>
notGateVars == <<limiterVars, pagerVars, fetchVars, handlerVars, mainVars, dryVars, pubVars, cursorVars, runVars, assetVars, logVars>>
notPagerVars == <<limiterVars, gateVars, fetchVars, handlerVars, mainVars, dryVars, pubVars, cursorVars, runVars, assetVars, logVars>>
notFetchVars == <<limiterVars, gateVars, pagerVars, handlerVars, mainVars, dryVars, pubVars, cursorVars, runVars, assetVars, logVars>>
notHandlerVars == <<gateVars, pagerVars, fetchVars, mainVars, dryVars, pubVars, cursorVars, runVars, assetVars, logVars>>
notMainVars == <<limiterVars, gateVars, pagerVars, fetchVars, handlerVars, dryVars, pubVars, cursorVars, runVars, assetVars, logVars>>
notDryVars == <<limiterVars, gateVars, pagerVars, fetchVars, handlerVars, mainVars, pubVars, cursorVars, runVars, assetVars, logVars>>
notPubVars == <<limiterVars, gateVars, pagerVars, fetchVars, handlerVars, mainVars, dryVars, cursorVars, runVars, assetVars, logVars>>
notCursorVars == <<limiterVars, gateVars, pagerVars, fetchVars, handlerVars, mainVars, dryVars, pubVars, runVars, assetVars, logVars>>
notRunVars == <<limiterVars, gateVars, pagerVars, fetchVars, handlerVars, mainVars, dryVars, pubVars, cursorVars, assetVars, logVars>>
notAssetVars == <<limiterVars, gateVars, pagerVars, fetchVars, handlerVars, mainVars, dryVars, pubVars, cursorVars, runVars, logVars>>
notLogVars == <<limiterVars, gateVars, pagerVars, fetchVars, handlerVars, mainVars, dryVars, pubVars, cursorVars, runVars, assetVars>>

Workers == 1..NumWorkers

Max2(a, b) == IF a >= b THEN a ELSE b

\* min(self.request_times)
MinOf(s) == CHOOSE x \in {s[i] : i \in 1..Len(s)} : \A j \in 1..Len(s) : x <= s[j]

(***************************************************************************)
(* RateLimiter.wait_if_needed                                              *)
(***************************************************************************)
\* [req_time for req_time in self.request_times if req_time > cutoff]
IsRecent(req_time, now) == req_time > now - WindowSeconds

Prune(times, now) == SelectSeq(times, LAMBDA req_time : IsRecent(req_time, now))

MustWait_Strict(times) == Len(times) > MaxRequestsPerMinute

\* if len(self.request_times) >= self.max_requests_per_minute
MustWait(times) == Len(times) >= MaxRequestsPerMinute

\* wait_time = 61 - (now - oldest_request).total_seconds()
WaitTime(now, oldest_request) == SlackSeconds - (now - oldest_request)

LockFree_NoLock(l) == TRUE

\* with self.lock: the section is entered when no thread holds the lock.
LockFree(l) == l = 0

\* The timestamp the call appends: the local `now`, read before any sleep.
RecordedTime(now, afterSleep) == now

LimiterInit ==
    /\ clock = 0
    /\ request_times = <<>>
    /\ lock = 0
    /\ total_requests = 0
    /\ wpc = [t \in Workers |-> "idle"]
    /\ wnow = [t \in Workers |-> 0]
    /\ wwake = [t \in Workers |-> 0]
    /\ calls = <<>>

LimiterIdle ==
    /\ clock = 0
    /\ request_times = <<>>
    /\ lock = 0
    /\ total_requests = 0
    /\ wpc = [t \in Workers |-> "idle"]
    /\ wnow = [t \in Workers |-> 0]
    /\ wwake = [t \in Workers |-> 0]
    /\ calls = <<>>

\* Time passes: while the lock is free or its holder sleeps (the statements
\* between taking the lock and the append take no time of their own).
Tick ==
    /\ \A t \in Workers : wpc[t] # "append"
    /\ clock + TickStep <= MaxTime
    /\ clock' = clock + TickStep
    /\ UNCHANGED <<request_times, lock, total_requests, wpc, wnow, wwake, calls>>
    /\ UNCHANGED notLimiterVars

\* with self.lock: now = datetime.now(); prune; decide whether to sleep.
WaitEnter(t) ==
    /\ wpc[t] = "idle"
    /\ LockFree(lock)
    /\ total_requests + Cardinality({u \in Workers : wpc[u] # "idle"}) < MaxCalls
    /\ LET pruned == Prune(request_times, clock)
           wait_time == IF MustWait(pruned) THEN WaitTime(clock, MinOf(pruned)) ELSE 0
       IN /\ request_times' = pruned
          /\ wnow' = [wnow EXCEPT ![t] = clock]
          /\ IF wait_time > 0
             THEN /\ wpc' = [wpc EXCEPT ![t] = "sleeping"]
                  /\ wwake' = [wwake EXCEPT ![t] = clock + wait_time]
             ELSE /\ wpc' = [wpc EXCEPT ![t] = "append"]
                  /\ UNCHANGED wwake
    /\ lock' = t
    /\ UNCHANGED <<clock, total_requests, calls>>
    /\ UNCHANGED notLimiterVars

\* time.sleep(wait_time) returns: no earlier than the instant asked for.
WaitSleep(t) ==
    /\ wpc[t] = "sleeping"
    /\ clock' = Max2(clock, wwake[t])
    /\ wpc' = [wpc EXCEPT ![t] = "append"]
    /\ UNCHANGED <<request_times, lock, total_requests, wnow, wwake, calls>>
    /\ UNCHANGED notLimiterVars

\* self.request_times.append(now); self.total_requests += 1; release the lock.
WaitAppend(t) ==
    /\ wpc[t] = "append"
    /\ request_times' = Append(request_times, RecordedTime(wnow[t], clock))
    /\ total_requests' = total_requests + 1
    /\ calls' = Append(calls, [now |-> wnow[t],
                                rec |-> RecordedTime(wnow[t], clock),
                                ret |-> clock])
    /\ lock' = 0
    /\ wpc' = [wpc EXCEPT ![t] = "idle"]
    /\ UNCHANGED <<clock, wnow, wwake>>
    /\ UNCHANGED notLimiterVars

LimiterNext ==
    \/ Tick
    \/ \E t \in Workers : WaitEnter(t)
    \/ \E t \in Workers : WaitSleep(t)
    \/ \E t \in Workers : WaitAppend(t)

(***************************************************************************)
(* Cache gate and record workers.                                          *)
(*                                                                         *)
(* A cache file is absent, holds invalid JSON, or holds a JSON object with *)
(* a status ("none": no such key) and an updated_at (NoStamp: no such key).*)
(* updated_at values are ISO-8601 strings of one format, which order as    *)
(* the instants they name: they are modelled by 1..MaxStamp.               *)
(***************************************************************************)
Ids == 1..MaxIds
NoStamp == 0
Stamps == 1..MaxStamp
Absent == [kind |-> "absent"]
Corrupt == [kind |-> "corrupt"]
JsonFile(status, updated_at) == [kind |-> "json", status |-> status, updated_at |-> updated_at]
Scripts == {"all_tickets", "all_users", "legacy_tickets"}
\* The status of a listed record: users carry none.
RemoteStatuses(script) == IF script = "all_users" THEN {"none"} ELSE {"open", "closed"}

\* What the file <id>.json of a script's cache directory may hold: nothing,
\* invalid JSON, an object without the keys, or a record the script saved.
CacheContents(script) ==
    {Absent, Corrupt, JsonFile("none", NoStamp)}
        \cup {JsonFile(st, u) : st \in RemoteStatuses(script), u \in Stamps}

\* Where the save of a fetched record fails: nowhere, at open(path, "w") (the
\* file is left as it was), inside json.dump (the file is left truncated), or
\* at the copy to the backup directory (the cache file is complete).
FailPoints == {"none", "open", "dump", "copy"}

is_item_cached_and_current_NoClosedRule(file, updated_at) ==
    IF file.kind # "json" THEN FALSE ELSE file.updated_at = updated_at

\* backup_zendesk_all.is_item_cached_and_current
is_item_cached_and_current(file, updated_at) ==
    IF file.kind = "absent" THEN FALSE              \* not os.path.exists
    ELSE IF file.kind = "corrupt" THEN FALSE        \* except json.JSONDecodeError
    ELSE IF file.status = "closed" THEN TRUE        \* cached_item.get('status') == 'closed'
    ELSE file.updated_at = updated_at               \* cached_item.get('updated_at', '') == updated_at

\* backup_zendesk_all.backup_tickets.process_ticket: the gate as a decision.
GateTicket(file, updated_at) ==
    IF is_item_cached_and_current(file, updated_at) THEN "skip" ELSE "fetch"

\* backup_zendesk_all.backup_users.process_user: os.path.exists, then inside
\* try ... except Exception: json.load, existing_user['updated_at'],
\* fromisoformat, existing_updated_at >= current_updated_at.
GateUser(file, updated_at) ==
    IF file.kind = "absent" THEN "fetch"
    ELSE IF file.kind = "corrupt" THEN "fetch"      \* JSONDecodeError, caught
    ELSE IF file.updated_at = NoStamp THEN "fetch"  \* KeyError, caught
    ELSE IF file.updated_at >= updated_at THEN "skip" ELSE "fetch"

\* backup_zendesk_tickets.download_ticket: the same reads with no try.
GateLegacy(file, updated_at) ==
    IF file.kind = "absent" THEN "fetch"
    ELSE IF file.kind = "corrupt" THEN "raise"      \* JSONDecodeError
    ELSE IF file.updated_at = NoStamp THEN "raise"  \* KeyError
    ELSE IF file.updated_at >= updated_at THEN "skip" ELSE "fetch"

\* A worker task as it ended: the listed record's id and updated_at, the cache
\* file it found, the gate's decision, whether the copy of a cached file to
\* the backup directory can succeed, whether the record was fetched, and the
\* status of the row it returned.
NoTask ==
    [id |-> 0, updated_at |-> NoStamp, before |-> Absent, gate |-> "none",
     copyOk |-> TRUE, fetched |-> FALSE, result |-> "none"]

Task(id, updated_at, gate, copyOk, fetched, result) ==
    [id |-> id, updated_at |-> updated_at, before |-> cache[id], gate |-> gate,
     copyOk |-> copyOk, fetched |-> fetched, result |-> result]

GateInit ==
    /\ gscript \in Scripts
    /\ cache \in [Ids -> CacheContents(gscript)]
    /\ glast = NoTask
    /\ gcrashed = FALSE

GateIdle ==
    /\ gscript = "none"
    /\ cache = [i \in Ids |-> Absent]
    /\ glast = NoTask
    /\ gcrashed = FALSE

\* What a save leaves in the cache file, by the point where it failed.
AfterSave(old, new, fail) ==
    CASE fail = "open" -> old
      [] fail = "dump" -> Corrupt
      [] OTHER -> new

\* backup_tickets.process_ticket(ticket): the gate; when it says current, copy
\* the cached file to the backup (a failed copy falls through to the fetch);
\* otherwise get_ticket_events, write the cache file, copy it to the backup.
ProcessTicket(id, updated_at, status, copyOk, fail) ==
    /\ gscript = "all_tickets"
    /\ ~gcrashed
    /\ LET gate == GateTicket(cache[id], updated_at)
       IN IF gate = "skip" /\ copyOk
          THEN /\ glast' = Task(id, updated_at, gate, copyOk, FALSE, "cached")
               /\ UNCHANGED cache
          ELSE /\ glast' = Task(id, updated_at, gate, copyOk, TRUE,
                                IF fail = "none" THEN "downloaded" ELSE "error")
               /\ cache' = [cache EXCEPT
                              ![id] = AfterSave(@, JsonFile(status, updated_at), fail)]
    /\ UNCHANGED <<gscript, gcrashed>>
    /\ UNCHANGED notGateVars

\* backup_users.process_user(user): the same shape; the listed record itself
\* is what is saved, and every exception of the save is caught.
ProcessUser(id, updated_at, copyOk, fail) ==
    /\ gscript = "all_users"
    /\ ~gcrashed
    /\ LET gate == GateUser(cache[id], updated_at)
       IN IF gate = "skip" /\ copyOk
          THEN /\ glast' = Task(id, updated_at, gate, copyOk, FALSE, "cached")
               /\ UNCHANGED cache
          ELSE /\ glast' = Task(id, updated_at, gate, copyOk, TRUE,
                                IF fail = "none" THEN "downloaded" ELSE "error")
               /\ cache' = [cache EXCEPT
                              ![id] = AfterSave(@, JsonFile("none", updated_at), fail)]
    /\ UNCHANGED <<gscript, gcrashed>>
    /\ UNCHANGED notGateVars

\* backup_zendesk_tickets.download_ticket(single_ticket): nothing is caught,
\* an exception leaves the task and, through executor.map, ends the script.
\* The file is written in place, with no copy.
DownloadTicket(id, updated_at, status, fail) ==
    /\ gscript = "legacy_tickets"
    /\ ~gcrashed
    /\ LET gate == GateLegacy(cache[id], updated_at)
       IN CASE gate = "raise" ->
                 /\ glast' = Task(id, updated_at, gate, TRUE, FALSE, "raised")
                 /\ gcrashed' = TRUE
                 /\ UNCHANGED cache
            [] gate = "skip" ->
                 /\ glast' = Task(id, updated_at, gate, TRUE, FALSE, "skipped")
                 /\ UNCHANGED <<cache, gcrashed>>
            [] OTHER ->
                 /\ glast' = Task(id, updated_at, gate, TRUE, TRUE,
                                  IF fail = "none" THEN "written" ELSE "raised")
                 /\ cache' = [cache EXCEPT
                                ![id] = AfterSave(@, JsonFile(status, updated_at), fail)]
                 /\ gcrashed' = (fail # "none")
    /\ UNCHANGED gscript
    /\ UNCHANGED notGateVars

\* The inputs of a task that can change its outcome: whether the copy of the
\* cached file succeeds matters when the gate says skip, where the save fails
\* matters when the record is fetched.
CopyOutcomes(gate) == IF gate = "skip" THEN BOOLEAN ELSE {TRUE}
SaveOutcomes(gate, copyOk) == IF gate = "skip" /\ copyOk THEN {"none"} ELSE FailPoints

GateNext ==
    \/ \E id \in Ids, u \in Stamps, st \in RemoteStatuses("all_tickets") :
         \E copyOk \in CopyOutcomes(GateTicket(cache[id], u)) :
           \E fail \in SaveOutcomes(GateTicket(cache[id], u), copyOk) :
             ProcessTicket(id, u, st, copyOk, fail)
    \/ \E id \in Ids, u \in Stamps :
         \E copyOk \in CopyOutcomes(GateUser(cache[id], u)) :
           \E fail \in SaveOutcomes(GateUser(cache[id], u), copyOk) :
             ProcessUser(id, u, copyOk, fail)
    \/ \E id \in Ids, u \in Stamps, st \in RemoteStatuses("legacy_tickets") :
         \E fail \in SaveOutcomes(GateLegacy(cache[id], u), FALSE) \ {"copy"} :
             DownloadTicket(id, u, st, fail)

(***************************************************************************)
(* Page loops.                                                             *)
(*                                                                         *)
(* An endpoint is a number: the start_time of an incremental export, the   *)
(* page of a listing.  An incremental export answers start_time = e with   *)
(* an end_time >= e and a next_page that asks for start_time = end_time; a *)
(* listing answers page e with a next_page for page e + 1, or none.        *)
(***************************************************************************)
NullPage == 0
FirstPage == 1
PageLoops == {"all_tickets", "all_users", "pubsub", "legacy_tickets"}
IsIncremental(script) == script # "all_users"

\* The 200 responses the server may give to a request for endpoint e.
Responses(script, e) ==
    IF IsIncremental(script)
    THEN UNION {{[status |-> 200, n |-> n, end_time |-> t, next_page |-> nx] :
                    n \in 0..MaxItems, nx \in {NullPage, t}} : t \in e..MaxPage}
    ELSE {[status |-> 200, n |-> n, end_time |-> NullPage, next_page |-> nx] :
             n \in 0..MaxItems,
             nx \in {NullPage} \cup (IF e < MaxPage THEN {e + 1} ELSE {})}

\* A response that is no page: a 429, or any other non-200 status.
Failure(status) == [status |-> status, n |-> 0, end_time |-> NullPage, next_page |-> NullPage]

NoResponse == [status |-> 0, n |-> 0, end_time |-> NullPage, next_page |-> NullPage]

\* The items of a page, numbered on from those served before.
NewItems(n) == [i \in 1..n |-> served + i]

\* log.extend(results) / log += list(executor.map(...))
Extend(log, items) == log \o items

PagerInit ==
    /\ pscript \in PageLoops
    /\ ppc = "loop"
    /\ endpoint = FirstPage
    /\ previous = NullPage
    /\ acc = <<>>
    /\ served = 0
    /\ fetches = 0
    /\ plast = NoResponse
    /\ selfRun = 0
    /\ pfetched = <<>>

PagerIdle ==
    /\ pscript = "none"
    /\ ppc = "done"
    /\ endpoint = NullPage
    /\ previous = NullPage
    /\ acc = <<>>
    /\ served = 0
    /\ fetches = 0
    /\ plast = NoResponse
    /\ selfRun = 0
    /\ pfetched = <<>>

\* The server's side of a request that is answered with a page.
Served(r) ==
    /\ served' = served + r.n
    /\ fetches' = fetches + 1
    /\ plast' = r
    /\ selfRun' = IF r.next_page = endpoint THEN selfRun + 1 ELSE 0
    /\ pfetched' = Append(pfetched, [endpoint |-> endpoint, n |-> r.n])

\* The server's side of a request that is answered with a failure.
Refused(r) ==
    /\ fetches' = fetches + 1
    /\ plast' = r
    /\ UNCHANGED <<served, selfRun, pfetched>>

Running(script) ==
    /\ pscript = script
    /\ ppc = "loop"
    /\ endpoint # NullPage
    /\ fetches < MaxFetches

\* backup_zendesk_all.backup_tickets, one turn of `while tickets_endpoint`
\* whose fetch_data_with_retries returns a page.
TicketsPage(r) ==
    /\ Running("all_tickets")
    /\ Served(r)
    /\ IF r.n = 0                                   \* if not data.get("tickets"): break
       THEN /\ ppc' = "done"
            /\ UNCHANGED <<acc, previous, endpoint>>
       ELSE /\ acc' = Extend(acc, NewItems(r.n))
            /\ IF r.end_time = previous             \* if end_time == previous_end_time: break
               THEN /\ ppc' = "done"
                    /\ UNCHANGED <<previous, endpoint>>
               ELSE /\ previous' = r.end_time
                    /\ endpoint' = r.next_page
                    /\ ppc' = IF r.next_page = NullPage THEN "done" ELSE "loop"
    /\ UNCHANGED pscript
    /\ UNCHANGED notPagerVars

\* ... whose fetch_data_with_retries raises: except Exception: break.
TicketsFail ==
    /\ Running("all_tickets")
    /\ Refused(Failure(500))
    /\ ppc' = "done"
    /\ UNCHANGED <<pscript, endpoint, previous, acc>>
    /\ UNCHANGED notPagerVars

\* backup_zendesk_all.backup_users, one turn of `while users_endpoint`.
UsersPage(r) ==
    /\ Running("all_users")
    /\ Served(r)
    /\ acc' = Extend(acc, NewItems(r.n))
    /\ endpoint' = r.next_page
    /\ ppc' = IF r.next_page = NullPage THEN "done" ELSE "loop"
    /\ UNCHANGED <<pscript, previous>>
    /\ UNCHANGED notPagerVars

\* ... whose fetch_data_with_retries raises: nothing catches it in backup_users.
UsersFail ==
    /\ Running("all_users")
    /\ Refused(Failure(500))
    /\ ppc' = "raised"
    /\ UNCHANGED <<pscript, endpoint, previous, acc>>
    /\ UNCHANGED notPagerVars

\* backup_zendesk_closed_tickets_pubsub, one turn of `while tickets_endpoint`
\* that gets a page: the endpoint just fetched is compared with the one
\* fetched before it.
PubsubPage(r) ==
    /\ Running("pubsub")
    /\ Served(r)
    /\ acc' = Extend(acc, NewItems(r.n))
    /\ IF endpoint = previous                       \* if tickets_endpoint == previous_tickets_endpoint: break
       THEN /\ ppc' = "done"
            /\ UNCHANGED <<previous, endpoint>>
       ELSE /\ previous' = endpoint
            /\ endpoint' = r.next_page
            /\ ppc' = IF r.next_page = NullPage THEN "done" ELSE "loop"
    /\ UNCHANGED pscript
    /\ UNCHANGED notPagerVars

\* backup_zendesk_tickets, one turn of `while tickets_endpoint` that gets a
\* page: previous_tickets_endpoint is never read.
LegacyPage(r) ==
    /\ Running("legacy_tickets")
    /\ Served(r)
    /\ acc' = Extend(acc, NewItems(r.n))
    /\ endpoint' = r.next_page
    /\ ppc' = IF r.next_page = NullPage THEN "done" ELSE "loop"
    /\ UNCHANGED <<pscript, previous>>
    /\ UNCHANGED notPagerVars

\* Both scripts: a 429 sleeps for retry-after and asks again (continue).
ScriptRateLimited ==
    /\ \/ Running("pubsub")
       \/ Running("legacy_tickets")
    /\ Refused(Failure(429))
    /\ UNCHANGED <<pscript, ppc, endpoint, previous, acc>>
    /\ UNCHANGED notPagerVars

\* Both scripts: any other status prints and calls exit().
ScriptExit ==
    /\ \/ Running("pubsub")
       \/ Running("legacy_tickets")
    /\ Refused(Failure(500))
    /\ ppc' = "exited"
    /\ UNCHANGED <<pscript, endpoint, previous, acc>>
    /\ UNCHANGED notPagerVars

PagerNext ==
    \/ \E r \in Responses("all_tickets", endpoint) : TicketsPage(r)
    \/ TicketsFail
    \/ \E r \in Responses("all_users", endpoint) : UsersPage(r)
    \/ UsersFail
    \/ \E r \in Responses("pubsub", endpoint) : PubsubPage(r)
    \/ \E r \in Responses("legacy_tickets", endpoint) : LegacyPage(r)
    \/ ScriptRateLimited
    \/ ScriptExit

(***************************************************************************)
(* Request helpers.                                                        *)
(*                                                                         *)
(* The server answers a request with 200, with 429, or with another        *)
(* status (500 stands for all of them).                                    *)
(***************************************************************************)
Statuses == {200, 429, 500}
Helpers == {"fetch_data_with_retries", "process_article", "sync_fetch_data",
            "get_ticket_events", "make_api_request"}

RECURSIVE Pow2(_)
Pow2(n) == IF n = 0 THEN 1 ELSE 2 * Pow2(n - 1)

Backoff_AsCommented(a) == Pow2(a + 1) - 1

\* wait_time = (2 ** attempt) + 1
Backoff(a) == Pow2(a) + 1

FetchInit ==
    /\ fscript \in Helpers
    /\ fpc = "request"
    /\ attempt = 0
    /\ retried = FALSE
    /\ delays = <<>>
    /\ waits = 0
    /\ requests = 0
    /\ n429 = 0
    /\ nhard = 0
    /\ npages = 0
    /\ flast = 0
    /\ outcome = "none"

FetchIdle ==
    /\ fscript = "none"
    /\ fpc = "done"
    /\ attempt = 0
    /\ retried = FALSE
    /\ delays = <<>>
    /\ waits = 0
    /\ requests = 0
    /\ n429 = 0
    /\ nhard = 0
    /\ npages = 0
    /\ flast = 0
    /\ outcome = "none"

Asking(script) ==
    /\ fscript = script
    /\ fpc = "request"
    /\ requests < MaxRequests

\* rate_limiter.wait_if_needed(); response = session.get(endpoint)
Sent(status) ==
    /\ waits' = waits + 1
    /\ requests' = requests + 1
    /\ flast' = status
    /\ n429' = IF status = 429 THEN n429 + 1 ELSE n429
    /\ nhard' = IF status \notin {200, 429} THEN nhard + 1 ELSE nhard

Ends(how) ==
    /\ fpc' = "done"
    /\ outcome' = how

\* backup_zendesk_all.fetch_data_with_retries, one request of the fetch_data
\* it calls: a 429 sleeps in handle_rate_limit and asks again (continue); any
\* other non-200 raises out of fetch_data, and the except clause either
\* raises it on (the last attempt) or sleeps wait_time and starts the next
\* attempt; a 200 returns response.json().
FetchDataWithRetries(status) ==
    /\ Asking("fetch_data_with_retries")
    /\ Sent(status)
    /\ CASE status = 429 ->
              UNCHANGED <<fpc, outcome, attempt, delays>>
         [] status = 200 ->
              /\ Ends("ok")
              /\ UNCHANGED <<attempt, delays>>
         [] OTHER ->
              IF attempt = max_retries - 1
              THEN /\ Ends("raised")
                   /\ UNCHANGED <<attempt, delays>>
              ELSE /\ delays' = Append(delays, Backoff(attempt))
                   /\ attempt' = attempt + 1
                   /\ UNCHANGED <<fpc, outcome>>
    /\ UNCHANGED <<fscript, retried, npages>>
    /\ UNCHANGED notFetchVars

\* backup_zendesk_all.backup_guide_articles.process_article, the request for
\* the article: after a 429 it asks once more, and whatever comes then is
\* final; a non-200 returns the row with status error.
ProcessArticle(status) ==
    /\ Asking("process_article")
    /\ Sent(status)
    /\ IF status = 429 /\ ~retried
       THEN /\ retried' = TRUE
            /\ UNCHANGED <<fpc, outcome>>
       ELSE /\ Ends(IF status = 200 THEN "downloaded" ELSE "error")
            /\ UNCHANGED retried
    /\ UNCHANGED <<fscript, attempt, delays, npages>>
    /\ UNCHANGED notFetchVars

\* utilities/sync_customers_managed_support.fetch_data: the same single
\* retry; a non-200 raises requests.RequestException.
SyncFetchData(status) ==
    /\ Asking("sync_fetch_data")
    /\ Sent(status)
    /\ IF status = 429 /\ ~retried
       THEN /\ retried' = TRUE
            /\ UNCHANGED <<fpc, outcome>>
       ELSE /\ Ends(IF status = 200 THEN "ok" ELSE "raised")
            /\ UNCHANGED retried
    /\ UNCHANGED <<fscript, attempt, delays, npages>>
    /\ UNCHANGED notFetchVars

\* backup_zendesk_all.backup_tickets.get_ticket_events, one request of
\* `while events_endpoint`, and process_ticket once it has returned: a 429
\* asks again; any other non-200 prints and breaks, and the events gathered
\* so far are returned; a 200 extends the events and follows next_page (more:
\* it is not None).  process_ticket stores whatever was returned in the
\* ticket, writes the cache file and returns the row with status downloaded.
GetTicketEvents(status, more) ==
    /\ Asking("get_ticket_events")
    /\ Sent(status)
    /\ CASE status = 429 ->
              UNCHANGED <<fpc, outcome, npages>>
         [] status = 200 ->
              /\ npages' = npages + 1
              /\ IF more THEN UNCHANGED <<fpc, outcome>> ELSE Ends("downloaded")
         [] OTHER ->
              /\ Ends("downloaded")
              /\ UNCHANGED npages
    /\ UNCHANGED <<fscript, attempt, retried, delays>>
    /\ UNCHANGED notFetchVars

\* utilities/redact_email_footers.make_api_request, one request of its
\* `while True`: rate_limiter.wait_if_needed() is called once, before the
\* loop; a 429 sleeps in handle_rate_limit_response and asks again; another
\* failure status raises from response.raise_for_status().
MakeApiRequest(status) ==
    /\ Asking("make_api_request")
    /\ waits' = IF requests = 0 THEN waits + 1 ELSE waits
    /\ requests' = requests + 1
    /\ flast' = status
    /\ n429' = IF status = 429 THEN n429 + 1 ELSE n429
    /\ nhard' = IF status \notin {200, 429} THEN nhard + 1 ELSE nhard
    /\ IF status = 429
       THEN UNCHANGED <<fpc, outcome>>
       ELSE Ends(IF status = 200 THEN "ok" ELSE "raised")
    /\ UNCHANGED <<fscript, attempt, retried, delays, npages>>
    /\ UNCHANGED notFetchVars

FetchNext ==
    \/ \E status \in Statuses : MakeApiRequest(status)
    \/ \E status \in Statuses : FetchDataWithRetries(status)
    \/ \E status \in Statuses : ProcessArticle(status)
    \/ \E status \in Statuses : SyncFetchData(status)
    \/ \E status \in Statuses, more \in BOOLEAN : GetTicketEvents(status, more)

(***************************************************************************)
(* RateLimiter.handle_rate_limit_response                                  *)
(*                                                                         *)
(* A response is its status and its retry-after header (NoHeader: the      *)
(* response carries none).                                                 *)
(***************************************************************************)
NoHeader == -1
RetryAfterHeaders == {NoHeader} \cup 1..MaxRetryAfter

RetryAfter_NoDefault(header) == IF header = NoHeader THEN 0 ELSE header

\* int(response.headers.get('retry-after', 60))
RetryAfter(header) == IF header = NoHeader THEN DefaultRetryAfter ELSE header

NoCall ==
    [status |-> 0, header |-> NoHeader, count_before |-> 0, times_before |-> <<>>,
     total_before |-> 0, clock_before |-> 0, ret |-> FALSE]

\* The limiter as a run may have left it when a response arrives.
LimiterSeen ==
    /\ clock = 0
    /\ request_times \in {<<>>, <<0>>, <<0, 0>>}
    /\ total_requests = Len(request_times)
    /\ lock = 0
    /\ wpc = [t \in Workers |-> "idle"]
    /\ wnow = [t \in Workers |-> 0]
    /\ wwake = [t \in Workers |-> 0]
    /\ calls = [i \in 1..Len(request_times) |-> [now |-> 0, rec |-> 0, ret |-> 0]]

NoBackoff == [calls |-> 0, hcalls |-> 0, wake |-> 0]

HandlerInit ==
    /\ rate_limited_count = 0
    /\ hcalls = 0
    /\ hlast = NoCall
    /\ hpc = [t \in Workers |-> "idle"]
    /\ hsnap = NoBackoff

HandlerIdle ==
    /\ rate_limited_count = 0
    /\ hcalls = 0
    /\ hlast = NoCall
    /\ hpc = [t \in Workers |-> "idle"]
    /\ hsnap = NoBackoff

\* with self.lock: a 429 counts, sleeps retry_after seconds and returns True;
\* any other status returns False (last_rate_limit_info is not modelled).
HandleRateLimitResponse(status, header) ==
    /\ hcalls < MaxHandled
    /\ LockFree(lock)
    /\ hcalls' = hcalls + 1
    /\ hlast' = [status |-> status, header |-> header,
                 count_before |-> rate_limited_count, times_before |-> request_times,
                 total_before |-> total_requests, clock_before |-> clock,
                 ret |-> (status = 429)]
    /\ IF status = 429
       THEN /\ rate_limited_count' = rate_limited_count + 1
            /\ clock' = clock + RetryAfter(header)      \* time.sleep(retry_after)
       ELSE UNCHANGED <<rate_limited_count, clock>>
    /\ UNCHANGED <<request_times, lock, total_requests, wpc, wnow, wwake, calls>>
    /\ UNCHANGED <<hpc, hsnap>>
    /\ UNCHANGED notHandlerVars

HandlerNext ==
    \E status \in Statuses, header \in RetryAfterHeaders :
        HandleRateLimitResponse(status, header)

(***************************************************************************)
(* handle_rate_limit_response called by the worker threads that share the  *)
(* limiter: the call step by step, next to wait_if_needed.                 *)
(***************************************************************************)
\* Thread t calls handle_rate_limit_response(response): with self.lock; on a
\* 429 it counts and starts time.sleep(retry_after), holding the lock; on
\* another status it returns False and releases the lock.
HandleEnter(t, status, header) ==
    /\ hpc[t] = "idle"
    /\ wpc[t] = "idle"
    /\ LockFree(lock)
    /\ hcalls + Cardinality({u \in Workers : hpc[u] # "idle"}) < MaxHandled
    /\ status = 429 => rate_limited_count < MaxBackoffs
    /\ IF status = 429
       THEN /\ rate_limited_count' = rate_limited_count + 1
            /\ hpc' = [hpc EXCEPT ![t] = "sleeping"]
            /\ hsnap' = [calls |-> Len(calls), hcalls |-> hcalls,
                          wake |-> clock + RetryAfter(header)]
            /\ lock' = t
            /\ UNCHANGED hcalls
       ELSE /\ hcalls' = hcalls + 1
            /\ UNCHANGED <<rate_limited_count, hpc, hsnap, lock>>
    /\ UNCHANGED <<clock, request_times, total_requests, wpc, wnow, wwake, calls, hlast>>
    /\ UNCHANGED notHandlerVars

\* time.sleep(retry_after) returns, no earlier than asked for: return True
\* and release the lock.
HandleReturn(t) ==
    /\ hpc[t] = "sleeping"
    /\ clock' = Max2(clock, hsnap.wake)
    /\ hpc' = [hpc EXCEPT ![t] = "idle"]
    /\ hcalls' = hcalls + 1
    /\ lock' = 0
    /\ UNCHANGED <<request_times, total_requests, wpc, wnow, wwake, calls>>
    /\ UNCHANGED <<rate_limited_count, hlast, hsnap>>
    /\ UNCHANGED notHandlerVars

\* The threads' steps; the clock moves with their sleeps.
BackoffNext ==
    \/ \E t \in Workers : WaitEnter(t)
    \/ \E t \in Workers : WaitSleep(t)
    \/ \E t \in Workers : WaitAppend(t)
    \/ \E t \in Workers, status \in Statuses, header \in RetryAfterHeaders :
         HandleEnter(t, status, header)
    \/ \E t \in Workers : HandleReturn(t)

(***************************************************************************)
(* main(): the backups of one run, in the order main() calls them.         *)
(***************************************************************************)
BackupOrder == <<"assets", "articles", "organizations", "tickets", "users">>
Resources == {BackupOrder[i] : i \in 1..Len(BackupOrder)}

\* Only the page loop of backup_tickets wraps fetch_data_with_retries in
\* try ... except Exception: break.
CatchesFetchFailure(resource) == resource = "tickets"

MainInit ==
    /\ mcur = 1
    /\ mresult = "running"
    /\ mstate = [r \in Resources |-> "pending"]
    /\ mpages = [r \in Resources |-> 0]

MainIdle ==
    /\ mcur = 0
    /\ mresult = "none"
    /\ mstate = [r \in Resources |-> "pending"]
    /\ mpages = [r \in Resources |-> 0]

InBackup ==
    /\ mresult = "running"
    /\ mcur \in 1..Len(BackupOrder)

\* The loop of the current backup gets a page and processes it; after the
\* last page (more = FALSE) the backup writes its log and returns.
BackupPage(more) ==
    /\ InBackup
    /\ mpages[BackupOrder[mcur]] < MaxMainPages
    /\ mpages' = [mpages EXCEPT ![BackupOrder[mcur]] = @ + 1]
    /\ IF more /\ mpages[BackupOrder[mcur]] + 1 < MaxMainPages
       THEN UNCHANGED <<mcur, mstate>>
       ELSE /\ mstate' = [mstate EXCEPT ![BackupOrder[mcur]] = "complete"]
            /\ mcur' = mcur + 1
    /\ UNCHANGED mresult
    /\ UNCHANGED notMainVars

\* fetch_data_with_retries raises in the loop of the current backup:
\* backup_tickets breaks off, writes its log and returns; every other backup
\* lets the exception through to main(), whose except clause returns False.
BackupFetchFails ==
    /\ InBackup
    /\ mstate' = [mstate EXCEPT ![BackupOrder[mcur]] = "aborted"]
    /\ IF CatchesFetchFailure(BackupOrder[mcur])
       THEN /\ mcur' = mcur + 1
            /\ UNCHANGED mresult
       ELSE /\ mresult' = "failed"
            /\ UNCHANGED mcur
    /\ UNCHANGED mpages
    /\ UNCHANGED notMainVars

\* All backups returned: the summary, the zip file, return True.
MainFinish ==
    /\ mresult = "running"
    /\ mcur = Len(BackupOrder) + 1
    /\ mresult' = "ok"
    /\ UNCHANGED <<mcur, mstate, mpages>>
    /\ UNCHANGED notMainVars

MainNext ==
    \/ \E more \in BOOLEAN : BackupPage(more)
    \/ BackupFetchFails
    \/ MainFinish

(***************************************************************************)
(* delete_spam_users.process_users and redact_email_footers.process_ticket *)
(***************************************************************************)
Tools == {"delete_spam_users", "redact_email_footers"}

Mutates_Always(dry) == TRUE

\* if dry_run: ... (simulate, or return) else: the mutating request
Mutates(dry) == ~dry

DryInit ==
    /\ dtool \in Tools
    /\ dry_run \in BOOLEAN
    /\ dpc = "list"
    /\ total_count = 0
    /\ spam_count = 0
    /\ simulated = 0
    /\ deletes = 0
    /\ puts = 0

DryIdle ==
    /\ dtool = "none"
    /\ dry_run = TRUE
    /\ dpc = "done"
    /\ total_count = 0
    /\ spam_count = 0
    /\ simulated = 0
    /\ deletes = 0
    /\ puts = 0

\* process_users, one user of a listed page: a spam user is deleted
\* (session.delete) or, in a dry run, passed to simulate_delete_user.
ProcessListedUser(spam) ==
    /\ dtool = "delete_spam_users"
    /\ dpc = "list"
    /\ total_count < MaxRecords
    /\ total_count' = total_count + 1
    /\ IF spam
       THEN /\ spam_count' = spam_count + 1
            /\ IF Mutates(dry_run)
               THEN /\ deletes' = deletes + 1
                    /\ UNCHANGED simulated
               ELSE /\ simulated' = simulated + 1
                    /\ UNCHANGED deletes
       ELSE UNCHANGED <<spam_count, simulated, deletes>>
    /\ UNCHANGED <<dtool, dry_run, dpc, puts>>
    /\ UNCHANGED notDryVars

\* process_users: next_page is None, or the listing request fails (break).
UsersListed ==
    /\ dtool = "delete_spam_users"
    /\ dpc = "list"
    /\ dpc' = "done"
    /\ UNCHANGED <<dtool, dry_run, total_count, spam_count, simulated, deletes, puts>>
    /\ UNCHANGED notDryVars

\* process_ticket: get_ticket_comments (GET requests), then the comments
\* that hold the disclaimer are counted; none, or a dry run, returns.
FindDisclaimers(matches) ==
    /\ dtool = "redact_email_footers"
    /\ dpc = "list"
    /\ spam_count' = matches
    /\ dpc' = IF matches > 0 /\ Mutates(dry_run) THEN "redact" ELSE "done"
    /\ UNCHANGED <<dtool, dry_run, total_count, simulated, deletes, puts>>
    /\ UNCHANGED notDryVars

\* process_ticket: redact_comment for the next comment with a disclaimer; it
\* sends the PUT when one of its own patterns finds the disclaimer.
RedactComment(found) ==
    /\ dtool = "redact_email_footers"
    /\ dpc = "redact"
    /\ total_count' = total_count + 1
    /\ puts' = IF found THEN puts + 1 ELSE puts
    /\ dpc' = IF total_count + 1 = spam_count THEN "done" ELSE "redact"
    /\ UNCHANGED <<dtool, dry_run, spam_count, simulated, deletes>>
    /\ UNCHANGED notDryVars

DryNext ==
    \/ \E spam \in BOOLEAN : ProcessListedUser(spam)
    \/ UsersListed
    \/ \E matches \in 0..MaxRecords : FindDisclaimers(matches)
    \/ \E found \in BOOLEAN : RedactComment(found)

(***************************************************************************)
(* The publishers of the closed-tickets topic.                             *)
(***************************************************************************)
Publishers == {"batch", "cloud_function"}
TicketStatuses == {"open", "solved", "closed"}

IsClosed_OrSolved(status) == status \in {"solved", "closed"}

\* single_ticket['status'] != 'closed' / ticket_data['status'] != 'closed'
IsClosed(status) == status = "closed"

NoTicket == [status |-> "none", published |-> 0, files |-> 0, rows |-> 0]

Handled(status) ==
    [status |-> status, published |-> Len(published), files |-> qfiles, rows |-> qrows]

PubInit ==
    /\ qtool \in Publishers
    /\ qtasks = 0
    /\ published = <<>>
    /\ qfiles = 0
    /\ qrows = 0
    /\ qlast = NoTicket
    /\ qreply = 0

PubIdle ==
    /\ qtool = "none"
    /\ qtasks = 0
    /\ published = <<>>
    /\ qfiles = 0
    /\ qrows = 0
    /\ qlast = NoTicket
    /\ qreply = 0

\* backup_zendesk_closed_tickets_pubsub.download_ticket(single_ticket): a
\* ticket that is not closed returns None, which filter(None, ...) drops; a
\* closed one is published, written to its file and returned as a row.
PubsubDownloadTicket(status) ==
    /\ qtool = "batch"
    /\ qtasks < MaxPublished
    /\ qtasks' = qtasks + 1
    /\ qlast' = Handled(status)
    /\ IF IsClosed(status)
       THEN /\ published' = Append(published, status)
            /\ qfiles' = qfiles + 1
            /\ qrows' = qrows + 1
       ELSE UNCHANGED <<published, qfiles, qrows>>
    /\ UNCHANGED <<qtool, qreply>>
    /\ UNCHANGED notPubVars

\* cloud-function/main.backup_ticket_to_pubsub(request) with a ticket_id: the
\* ticket is fetched (http: the status of that response); a failed fetch
\* replies 500, a ticket that is not closed replies 200 and is ignored, a
\* closed one is published.
BackupTicketToPubsub(http, status) ==
    /\ qtool = "cloud_function"
    /\ qtasks < MaxPublished
    /\ qtasks' = qtasks + 1
    /\ IF http # 200
       THEN /\ qreply' = 500
            /\ qlast' = Handled("none")
            /\ UNCHANGED published
       ELSE /\ qreply' = 200
            /\ qlast' = Handled(status)
            /\ published' = IF IsClosed(status) THEN Append(published, status) ELSE published
    /\ UNCHANGED <<qtool, qfiles, qrows>>
    /\ UNCHANGED notPubVars

\* backup_ticket_to_pubsub(request) without a ticket_id: 'Invalid request'.
InvalidRequest ==
    /\ qtool = "cloud_function"
    /\ qtasks < MaxPublished
    /\ qtasks' = qtasks + 1
    /\ qreply' = 400
    /\ qlast' = Handled("none")
    /\ UNCHANGED <<qtool, published, qfiles, qrows>>
    /\ UNCHANGED notPubVars

PubNext ==
    \/ \E status \in TicketStatuses : PubsubDownloadTicket(status)
    \/ \E http \in {200, 404}, status \in TicketStatuses : BackupTicketToPubsub(http, status)
    \/ InvalidRequest

(***************************************************************************)
(* The incremental-export cursor of the ticket backups.                    *)
(*                                                                         *)
(* backup_zendesk_support_tickets.backup_tickets and                       *)
(* backup_zendesk_support_tickets_local.backup_tickets_local run the same  *)
(* loop and write last_run.txt; backup_zendesk_all.backup_tickets keeps    *)
(* its cursor in START_TIME and writes no file.                            *)
(***************************************************************************)
CursorScripts == {"support_tickets", "all_tickets"}
Persists(script) == script = "support_tickets"

CursorAfterEmptyPage_Kept(script, cur, end_time) == cur

\* An empty page: last_processed_time = data["end_time"] in the scripts that
\* persist the cursor; backup_zendesk_all leaves START_TIME as it is.
CursorAfterEmptyPage(script, cur, end_time) == IF Persists(script) THEN end_time ELSE cur

CursorInit ==
    /\ cscript \in CursorScripts
    /\ cpc = "fetch"
    /\ cendpoint = FirstPage
    /\ cprevious = NullPage
    /\ cursor = FirstPage
    /\ cpage = NoResponse
    /\ cpending = 0
    /\ cfull = <<>>
    /\ last_run = FirstPage
    /\ cfetches = 0
    /\ cerr = NullPage
    /\ csaved = FALSE

CursorIdle ==
    /\ cscript = "none"
    /\ cpc = "done"
    /\ cendpoint = NullPage
    /\ cprevious = NullPage
    /\ cursor = NullPage
    /\ cpage = NoResponse
    /\ cpending = 0
    /\ cfull = <<>>
    /\ last_run = NullPage
    /\ cfetches = 0
    /\ cerr = NullPage
    /\ csaved = FALSE

\* The loop ends: the scripts that persist go on to write last_run.txt.
LoopExit == IF Persists(cscript) THEN "persist" ELSE "done"

AfterFetchFailure_Break(script) == IF Persists(script) THEN "persist" ELSE "done"

\* A non-200, non-429 status: return {"success": False, ...} in the scripts
\* that persist; break in backup_zendesk_all.
AfterFetchFailure(script) == IF Persists(script) THEN "failed" ELSE "done"

\* One turn of `while tickets_endpoint` that gets a page: an empty page ends
\* the loop, any other is handed to the worker pool.
CursorFetchPage(r) ==
    /\ cpc = "fetch"
    /\ cfetches < MaxFetches
    /\ cfetches' = cfetches + 1
    /\ cpage' = r
    /\ IF r.n = 0
       THEN /\ cursor' = CursorAfterEmptyPage(cscript, cursor, r.end_time)
            /\ cfull' = Append(cfull, r.end_time)
            /\ cpc' = LoopExit
            /\ UNCHANGED cpending
       ELSE /\ cpending' = r.n
            /\ cpc' = "process"
            /\ UNCHANGED <<cursor, cfull>>
    /\ UNCHANGED <<cscript, cendpoint, cprevious, last_run, cerr, csaved>>
    /\ UNCHANGED notCursorVars

\* A worker of the pool finishes one ticket of the page, whose updated_at
\* lies between the start_time asked for and the page's end_time: its row
\* has status error (the file could not be written) or another status.
CursorWorkerDone(updated_at, error) ==
    /\ cpc = "process"
    /\ cpending > 0
    /\ cpending' = cpending - 1
    /\ cerr' = IF error /\ (cerr = NullPage \/ updated_at < cerr) THEN updated_at ELSE cerr
    /\ UNCHANGED <<cscript, cpc, cendpoint, cprevious, cursor, cpage, cfull, last_run,
                   cfetches, csaved>>
    /\ UNCHANGED notCursorVars

\* list(executor.map(...)) has returned: the end_time checks, the cursor,
\* next_page.
CursorPageProcessed ==
    /\ cpc = "process"
    /\ cpending = 0
    /\ cfull' = Append(cfull, cpage.end_time)
    /\ IF cpage.end_time = cprevious
       THEN /\ cpc' = LoopExit
            /\ UNCHANGED <<cprevious, cursor, cendpoint>>
       ELSE /\ cprevious' = cpage.end_time
            /\ cursor' = cpage.end_time
            /\ cendpoint' = cpage.next_page
            /\ cpc' = IF cpage.next_page = NullPage THEN LoopExit ELSE "fetch"
    /\ UNCHANGED <<cscript, cpage, cpending, last_run, cfetches, cerr, csaved>>
    /\ UNCHANGED notCursorVars

\* The request fails: the scripts that persist return the failure at once
\* (last_run.txt is not written); backup_zendesk_all breaks out of the loop.
CursorFetchFails ==
    /\ cpc = "fetch"
    /\ cfetches < MaxFetches
    /\ cfetches' = cfetches + 1
    /\ cpage' = Failure(500)
    /\ cpc' = AfterFetchFailure(cscript)
    /\ UNCHANGED <<cscript, cendpoint, cprevious, cursor, cpending, cfull, last_run,
                   cerr, csaved>>
    /\ UNCHANGED notCursorVars

\* with open(LAST_RUN_FILE, "w") as f: f.write(str(last_processed_time)),
\* then save_log_to_drive / save_log_local and return the summary.
PersistCursor ==
    /\ cpc = "persist"
    /\ last_run' = cursor
    /\ csaved' = TRUE
    /\ cpc' = "done"
    /\ UNCHANGED <<cscript, cendpoint, cprevious, cursor, cpage, cpending, cfull, cfetches,
                   cerr>>
    /\ UNCHANGED notCursorVars

CursorNext ==
    \/ \E r \in Responses("all_tickets", cendpoint) : CursorFetchPage(r)
    \/ \E updated_at \in cendpoint..cpage.end_time, error \in BOOLEAN :
         CursorWorkerDone(updated_at, error)
    \/ CursorPageProcessed
    \/ CursorFetchFails
    \/ PersistCursor

(***************************************************************************)
(* backup_zendesk_all.backup_tickets: one run.                             *)
(*                                                                         *)
(* What happens to a listed ticket in process_ticket:                      *)
(*   "cached"       the gate says current and the copy succeeds            *)
(*   "downloaded"   the events are fetched and the files written           *)
(*   "fetch_failed" a request of get_ticket_events gets a non-200 status   *)
(*   "save_failed"  writing or copying the file raises IOError / OSError   *)
(***************************************************************************)
Fates == {"cached", "downloaded", "fetch_failed", "save_failed"}

\* The status of the row process_ticket returns.
RowStatus(fate) ==
    CASE fate = "cached" -> "cached"
      [] fate = "downloaded" -> "downloaded"
      [] fate = "fetch_failed" -> "downloaded"     \* get_ticket_events: break, return events
      [] OTHER -> "error"                          \* except (IOError, OSError)

\* The counter process_ticket increments on that path ("none": neither).
CounterOf(fate) ==
    CASE fate = "cached" -> "cached"
      [] fate \in {"downloaded", "fetch_failed"} -> "downloaded"
      [] OTHER -> "none"

\* What the task leaves in the cache file of its ticket: the copy that was
\* there ("kept"), the ticket with all its events ("complete"), the ticket
\* with the events fetched before the failing audits page ("truncated"), or
\* whatever the failed save left ("unknown").
CacheWritten(fate) ==
    CASE fate = "cached" -> "kept"
      [] fate = "downloaded" -> "complete"
      [] fate = "fetch_failed" -> "truncated"      \* ticket["events"] = events; json.dump
      [] OTHER -> "unknown"

Row(id, fate) ==
    [id |-> id, fate |-> fate, status |-> RowStatus(fate), cache |-> CacheWritten(fate)]
NoRow == [id |-> 0, fate |-> "none", status |-> "none", cache |-> "none"]
\* A row that an earlier run wrote to _log.csv.
OldRow == [id |-> 0, fate |-> "earlier_run", status |-> "downloaded", cache |-> "none"]

IdleWorker == [pc |-> "idle", idx |-> 0, reg |-> 0]

write_log_Appending(old, rows) == old \o rows

\* write_log: open(..., 'w') and writer.writerows(log_data).
write_log(old, rows) == rows

\* The pages of tickets a listing may return: 1..MaxItems tickets each.
TicketPages == UNION {[1..n -> Fates] : n \in 1..MaxItems}

RunInit ==
    /\ rpc = "fetch"
    /\ rpage = <<>>
    /\ rnext = 1
    /\ rresults = <<>>
    /\ rworker = [t \in Workers |-> IdleWorker]
    /\ rlisted = 0
    /\ rpages = 0
    /\ rlog = <<>>
    /\ total_cached = 0
    /\ total_downloaded = 0
    /\ rlogfile \in {<<>>, <<OldRow>>}

RunIdle ==
    /\ rpc = "done"
    /\ rpage = <<>>
    /\ rnext = 1
    /\ rresults = <<>>
    /\ rworker = [t \in Workers |-> IdleWorker]
    /\ rlisted = 0
    /\ rpages = 0
    /\ rlog = <<>>
    /\ total_cached = 0
    /\ total_downloaded = 0
    /\ rlogfile = <<>>

\* fetch_data_with_retries returns a page with tickets: a pool is made for it.
RunFetchPage(page) ==
    /\ rpc = "fetch"
    /\ rlisted + Len(page) <= MaxRunTickets
    /\ rpage' = page
    /\ rnext' = 1
    /\ rresults' = [i \in 1..Len(page) |-> NoRow]
    /\ rpc' = "process"
    /\ UNCHANGED <<rworker, rlisted, rpages, rlog, total_cached, total_downloaded, rlogfile>>
    /\ UNCHANGED notRunVars

\* The listing ends the loop: the fetch raises, the page is empty, end_time
\* repeats or next_page is None (the last two after the page's tickets are in
\* the log).
RunLoopEnds ==
    /\ rpc = "fetch"
    /\ rpc' = "write"
    /\ UNCHANGED <<rpage, rnext, rresults, rworker, rlisted, rpages, rlog, total_cached,
                   total_downloaded, rlogfile>>
    /\ UNCHANGED notRunVars

\* A worker thread takes the next ticket and runs process_ticket up to the
\* `total_... += 1` of its path, of which it has read the counter; a save that
\* fails returns its row at once.
WorkerRuns(t) ==
    /\ rpc = "process"
    /\ rworker[t].pc = "idle"
    /\ rnext <= Len(rpage)
    /\ rnext' = rnext + 1
    /\ IF CounterOf(rpage[rnext]) = "none"
       THEN /\ rresults' = [rresults EXCEPT ![rnext] = Row(rlisted + rnext, rpage[rnext])]
            /\ UNCHANGED rworker
       ELSE /\ rworker' = [rworker EXCEPT ![t] =
                              [pc |-> "store", idx |-> rnext,
                               reg |-> IF CounterOf(rpage[rnext]) = "cached"
                                       THEN total_cached ELSE total_downloaded]]
            /\ UNCHANGED rresults
    /\ UNCHANGED <<rpc, rpage, rlisted, rpages, rlog, total_cached, total_downloaded, rlogfile>>
    /\ UNCHANGED notRunVars

\* ... stores the counter and returns the row.
WorkerStores(t) ==
    /\ rpc = "process"
    /\ rworker[t].pc = "store"
    /\ LET i == rworker[t].idx
       IN /\ IF CounterOf(rpage[i]) = "cached"
             THEN /\ total_cached' = rworker[t].reg + 1
                  /\ UNCHANGED total_downloaded
             ELSE /\ total_downloaded' = rworker[t].reg + 1
                  /\ UNCHANGED total_cached
          /\ rresults' = [rresults EXCEPT ![i] = Row(rlisted + i, rpage[i])]
    /\ rworker' = [rworker EXCEPT ![t] = IdleWorker]
    /\ UNCHANGED <<rpc, rpage, rnext, rlisted, rpages, rlog, rlogfile>>
    /\ UNCHANGED notRunVars

PoolJoined_NoWait(w) == TRUE

\* list(executor.map(...)) and the exit of `with ThreadPoolExecutor(...)` wait
\* for every task of the pool.
PoolJoined(w) == \A t \in Workers : w[t].pc = "idle"

\* list(executor.map(...)) has every row: log.extend, on to the next turn.
RunPageDone ==
    /\ rpc = "process"
    /\ rnext > Len(rpage)
    /\ PoolJoined(rworker)
    /\ rlog' = rlog \o rresults
    /\ rlisted' = rlisted + Len(rpage)
    /\ rpages' = rpages + 1
    /\ rpc' = "fetch"
    /\ UNCHANGED <<rpage, rnext, rresults, rworker, total_cached, total_downloaded, rlogfile>>
    /\ UNCHANGED notRunVars

\* write_log(backup_tickets_path, log, ...), then the totals are printed.
RunWriteLog ==
    /\ rpc = "write"
    /\ rlogfile' = write_log(rlogfile, rlog)
    /\ rpc' = "done"
    /\ UNCHANGED <<rpage, rnext, rresults, rworker, rlisted, rpages, rlog, total_cached,
                   total_downloaded>>
    /\ UNCHANGED notRunVars

RunNext ==
    \/ \E page \in TicketPages : RunFetchPage(page)
    \/ RunLoopEnds
    \/ \E t \in Workers : WorkerRuns(t)
    \/ \E t \in Workers : WorkerStores(t)
    \/ RunPageDone
    \/ RunWriteLog

(***************************************************************************)
(* Support assets: one file per asset, named after its title.              *)
(*                                                                         *)
(* A title is a sequence of characters.                                    *)
(***************************************************************************)
\* Titles the assets of one type may carry.
AssetTitles ==
    {<<"a">>, <<"A">>, <<"a", "!">>, <<"a", " ", "b">>, <<"a", "-", "b">>, <<"b">>}

\* slugify(value): value.lower(); re.sub(r'[^\w\s-]', '', ...); then
\* re.sub(r'[-\s]+', '-', ...).strip('-_').
slugify(value) ==
    LET lower(c) == CASE c = "A" -> "a" [] c = "B" -> "b" [] OTHER -> c
        kept(c) == c \in {"a", "b", "_", " ", "-"}
        sep(c) == c \in {" ", "-"}
        RECURSIVE clean(_)
        clean(s) == IF s = <<>> THEN <<>>
                    ELSE IF kept(lower(Head(s))) THEN <<lower(Head(s))>> \o clean(Tail(s))
                    ELSE clean(Tail(s))
        RECURSIVE collapse(_)
        collapse(s) == IF s = <<>> THEN <<>>
                       ELSE IF sep(Head(s))
                            THEN IF Len(s) > 1 /\ sep(s[2]) THEN collapse(Tail(s))
                                 ELSE <<"-">> \o collapse(Tail(s))
                            ELSE <<Head(s)>> \o collapse(Tail(s))
        RECURSIVE lstrip(_)
        lstrip(s) == IF s # <<>> /\ Head(s) \in {"-", "_"} THEN lstrip(Tail(s)) ELSE s
        RECURSIVE rstrip(_)
        rstrip(s) == IF s # <<>> /\ s[Len(s)] \in {"-", "_"}
                     THEN rstrip(SubSeq(s, 1, Len(s) - 1)) ELSE s
    IN rstrip(lstrip(collapse(clean(value))))

\* The file names of the directory: filename = f"{safe_title}.json".
AssetFiles == {slugify(t) : t \in AssetTitles}

AssetInit ==
    /\ alog = <<>>
    /\ afiles = [f \in AssetFiles |-> Absent]

AssetIdle ==
    /\ alog = <<>>
    /\ afiles = [f \in AssetFiles |-> Absent]

\* backup_asset(asset, ...) for the next asset of the listing, which carries
\* the given title: the file is written and copied, or the save fails at one
\* of its steps and the row is an error row.
BackupAsset(title, fail) ==
    /\ Len(alog) < MaxAssets
    /\ LET id == Len(alog) + 1
           filename == slugify(title)
       IN /\ afiles' = [afiles EXCEPT
                          ![filename] = AfterSave(@, [kind |-> "asset", id |-> id], fail)]
          /\ alog' = Append(alog, [id |-> id, file |-> filename, saved |-> fail = "none"])
    /\ UNCHANGED notAssetVars

AssetNext == \E title \in AssetTitles, fail \in FailPoints : BackupAsset(title, fail)

(***************************************************************************)
(* backup_zendesk_support_users: the rotation of the day's log files.      *)
(*                                                                         *)
(* All the runs are on one day, so current_date is the same in each.       *)
(***************************************************************************)
\* The names a log of the day may have: slot 0 is the current log, slot k
\* the name with suffix _k (one more than MAX_LOG_FILES is watched).
LogSlots == 0..(MAX_LOG_FILES + 1)
NoLog == [run |-> 0, time |-> 0]

\* shutil.move(src, dst): dst is replaced when it exists.
Move(files, src, dst) == [files EXCEPT ![dst] = files[src], ![src] = NoLog]

\* for i in range(MAX_LOG_FILES - 1, 0, -1): if os.path.exists(old_log):
\* shutil.move(old_log, new_log), from i down to 1.
RECURSIVE ShiftFrom(_, _)
ShiftFrom(files, i) ==
    IF i = 0 THEN files
    ELSE ShiftFrom(IF files[i] # NoLog THEN Move(files, i, i + 1) ELSE files, i - 1)

rotate_log_files_NoShift(files) == IF files[0] = NoLog THEN files ELSE Move(files, 0, 1)

\* rotate_log_files(): nothing when today's log does not exist; else shift
\* the rotated logs and move the current log to suffix _1.
rotate_log_files(files) ==
    IF files[0] = NoLog THEN files
    ELSE Move(ShiftFrom(files, MAX_LOG_FILES - 1), 0, 1)

LogInit ==
    /\ lclock = 0
    /\ lfiles = [k \in LogSlots |-> NoLog]
    /\ lhist = <<>>

LogIdle ==
    /\ lclock = 0
    /\ lfiles = [k \in LogSlots |-> NoLog]
    /\ lhist = <<>>

\* The end of a run: current_log_file = rotate_log_files(), then the new log
\* is written with mode 'wt', its first row holding the time.
WriteUsersLog ==
    /\ Len(lhist) < MaxLogRuns
    /\ LET new == [run |-> Len(lhist) + 1, time |-> lclock]
       IN /\ lfiles' = [rotate_log_files(lfiles) EXCEPT ![0] = new]
          /\ lhist' = Append(lhist, new)
    /\ UNCHANGED lclock
    /\ UNCHANGED notLogVars

\* Time passes between two runs.
LogTick ==
    /\ lclock < MaxLogTime
    /\ lclock' = lclock + 1
    /\ UNCHANGED <<lfiles, lhist>>
    /\ UNCHANGED notLogVars

LogNext ==
    \/ WriteUsersLog
    \/ LogTick

(***************************************************************************)
(* Specifications.                                                         *)
(***************************************************************************)
InitLimiter == LimiterInit /\ GateIdle /\ PagerIdle /\ FetchIdle /\ HandlerIdle /\ MainIdle /\ DryIdle /\ PubIdle /\ CursorIdle /\ RunIdle /\ AssetIdle /\ LogIdle

SpecLimiter == InitLimiter /\ [][LimiterNext]_vars

InitGate == GateInit /\ LimiterIdle /\ PagerIdle /\ FetchIdle /\ HandlerIdle /\ MainIdle /\ DryIdle /\ PubIdle /\ CursorIdle /\ RunIdle /\ AssetIdle /\ LogIdle

SpecGate == InitGate /\ [][GateNext]_vars

InitPager == PagerInit /\ LimiterIdle /\ GateIdle /\ FetchIdle /\ HandlerIdle /\ MainIdle /\ DryIdle /\ PubIdle /\ CursorIdle /\ RunIdle /\ AssetIdle /\ LogIdle

SpecPager == InitPager /\ [][PagerNext]_vars

InitFetch == FetchInit /\ LimiterIdle /\ GateIdle /\ PagerIdle /\ HandlerIdle /\ MainIdle /\ DryIdle /\ PubIdle /\ CursorIdle /\ RunIdle /\ AssetIdle /\ LogIdle

SpecFetch == InitFetch /\ [][FetchNext]_vars

InitHandler == HandlerInit /\ LimiterSeen /\ GateIdle /\ PagerIdle /\ FetchIdle /\ MainIdle /\ DryIdle /\ PubIdle /\ CursorIdle /\ RunIdle /\ AssetIdle /\ LogIdle

SpecHandler == InitHandler /\ [][HandlerNext]_vars

SpecBackoff == InitHandler /\ [][BackoffNext]_vars

InitMain == MainInit /\ LimiterIdle /\ GateIdle /\ PagerIdle /\ FetchIdle /\ HandlerIdle /\ DryIdle /\ PubIdle /\ CursorIdle /\ RunIdle /\ AssetIdle /\ LogIdle

SpecMain == InitMain /\ [][MainNext]_vars

InitDry == DryInit /\ LimiterIdle /\ GateIdle /\ PagerIdle /\ FetchIdle /\ HandlerIdle /\ MainIdle /\ PubIdle /\ CursorIdle /\ RunIdle /\ AssetIdle /\ LogIdle

SpecDry == InitDry /\ [][DryNext]_vars

InitPub == PubInit /\ LimiterIdle /\ GateIdle /\ PagerIdle /\ FetchIdle /\ HandlerIdle /\ MainIdle /\ DryIdle /\ CursorIdle /\ RunIdle /\ AssetIdle /\ LogIdle

SpecPub == InitPub /\ [][PubNext]_vars

InitCursor == CursorInit /\ LimiterIdle /\ GateIdle /\ PagerIdle /\ FetchIdle /\ HandlerIdle /\ MainIdle /\ DryIdle /\ PubIdle /\ RunIdle /\ AssetIdle /\ LogIdle

SpecCursor == InitCursor /\ [][CursorNext]_vars

InitRun == RunInit /\ LimiterIdle /\ GateIdle /\ PagerIdle /\ FetchIdle /\ HandlerIdle /\ MainIdle /\ DryIdle /\ PubIdle /\ CursorIdle /\ AssetIdle /\ LogIdle

SpecRun == InitRun /\ [][RunNext]_vars

InitAsset == AssetInit /\ LimiterIdle /\ GateIdle /\ PagerIdle /\ FetchIdle /\ HandlerIdle /\ MainIdle /\ DryIdle /\ PubIdle /\ CursorIdle /\ RunIdle /\ LogIdle

SpecAsset == InitAsset /\ [][AssetNext]_vars

InitLog == LogInit /\ LimiterIdle /\ GateIdle /\ PagerIdle /\ FetchIdle /\ HandlerIdle /\ MainIdle /\ DryIdle /\ PubIdle /\ CursorIdle /\ RunIdle /\ AssetIdle

SpecLog == InitLog /\ [][LogNext]_vars

(***************************************************************************)
(* Claims about the RateLimiter (checked under SpecLimiter).               *)
(***************************************************************************)
CallIds == 1..Len(calls)

\* The calls admitted (returned) in the 60 seconds ending at instant T.
AdmittedInWindow(T) == {i \in CallIds : IsRecent(calls[i].ret, T) /\ calls[i].ret <= T}

\* The calls before call j that were made within the 60 seconds before it.
EarlierInSpan(j) == {i \in 1..(j - 1) : IsRecent(calls[i].now, calls[j].now)}

\* C1: in every rolling 60-second interval at most M calls of
\* wait_if_needed() are admitted (return to their caller), for every timing
\* and interleaving of the calls.
C1_AtMostMPerWindow ==
    \A j \in CallIds :
        Cardinality(AdmittedInWindow(calls[j].ret)) <= MaxRequestsPerMinute

\* C2: when a call is the Nth of N > M calls made within a 60-second span
\* (at least M earlier calls read their `now` less than 60 seconds before
\* it), it does not return until at least one earlier recorded timestamp has
\* fallen outside the 60-second window.
C2_NthCallBlocks ==
    \A j \in CallIds :
        Cardinality(EarlierInSpan(j)) >= MaxRequestsPerMinute
            => \E i \in 1..(j - 1) : ~IsRecent(calls[i].rec, calls[j].ret)

\* A call that exceeded the ceiling within a 60-second span has returned,
\* after having slept.
C2_Witness ==
    \E j \in CallIds :
        /\ Cardinality(EarlierInSpan(j)) >= MaxRequestsPerMinute
        /\ calls[j].ret > calls[j].now

(***************************************************************************)
(* Claims about the cache gate (checked under SpecGate).                   *)
(***************************************************************************)
TaskRan == glast.gate # "none"

\* The task found a readable cache file with its keys, not closed.
FoundOpenRecord ==
    /\ TaskRan
    /\ glast.before.kind = "json"
    /\ glast.before.status # "closed"
    /\ glast.before.updated_at \in Stamps

\* The task found a cached ticket with status closed.
FoundClosedTicket ==
    /\ TaskRan
    /\ gscript = "all_tickets"
    /\ glast.before.kind = "json"
    /\ glast.before.status = "closed"

\* The task found a cache file that is invalid JSON, or JSON without the keys.
FoundUnreadable ==
    /\ TaskRan
    /\ \/ glast.before.kind = "corrupt"
       \/ /\ glast.before.kind = "json"
          /\ glast.before.status = "none"
          /\ glast.before.updated_at = NoStamp

\* C3: for a record with an existing, readable, non-closed cache file the gate
\* says skip when the cached updated_at is greater than or equal to the
\* remote one and fetch when it is smaller, for tickets
\* (is_item_cached_and_current) as for users.
C3_SkipIffCachedNotOlder ==
    (FoundOpenRecord /\ gscript \in {"all_tickets", "all_users"})
        => (glast.gate = "skip" <=> glast.before.updated_at >= glast.updated_at)

C5_UnreadableMeansFetch ==
    FoundUnreadable => (glast.gate = "fetch" /\ glast.fetched /\ ~gcrashed)

(***************************************************************************)
(* Claims about the page loops (checked under SpecPager).                  *)
(***************************************************************************)
LoopEnded == ppc # "loop" \/ endpoint = NullPage

\* C6: a page loop appends the items of every page exactly once and in page
\* order, and ends when the next-page pointer is empty or when a page holds
\* zero items, also when that page's next-page pointer is not empty.
C6_StopsOnEmptyPage ==
    /\ (plast.status = 200 /\ plast.n > 0) => acc = [i \in 1..served |-> i]
    /\ (plast.status = 200 /\ (plast.n = 0 \/ plast.next_page = NullPage)) => LoopEnded

\* C7: in every incremental-export ticket loop, once the server has answered
\* twice in a row with a next_page equal to the endpoint just fetched, the
\* loop has ended.
C7_RepeatEndsLoop ==
    (IsIncremental(pscript) /\ selfRun >= 2) => LoopEnded

\* A call that had to sleep: it returned later than it started.
Slept(i) == calls[i].ret > calls[i].now

\* C17: when wait_if_needed() has to sleep, the timestamp it appends to
\* request_times is the time after the sleep has ended, not the time at which
\* the call started; total_requests is incremented once per call.
C17_RecordsTimeAfterSleep ==
    /\ \A i \in CallIds : Slept(i) => calls[i].rec = calls[i].ret
    /\ total_requests = Len(calls)

InSection == {t \in Workers : wpc[t] # "idle"}

\* How often x occurs in the sequence s.
Occurrences(s, x) == Cardinality({i \in 1..Len(s) : s[i] = x})

RecordedTimes == [i \in CallIds |-> calls[i].rec]

\* C19: at most one thread at a time is inside the prune / count / sleep /
\* append section of wait_if_needed, and it holds the lock; no recorded
\* timestamp is lost (every timestamp recorded within the last 60 s is in
\* request_times as often as it was recorded), and total_requests equals the
\* number of completed calls.
C19_SerializedAdmission ==
    /\ Cardinality(InSection) <= 1
    /\ \A t \in InSection : lock = t
    /\ InSection = {} => lock = 0
    /\ total_requests = Len(calls)
    /\ \A i \in CallIds :
         IsRecent(calls[i].rec, clock) =>
            Occurrences(request_times, calls[i].rec) = Occurrences(RecordedTimes, calls[i].rec)

\* One thread sleeps inside the section, after calls of both threads completed.
C19_Witness ==
    /\ \E t \in Workers : wpc[t] = "sleeping" /\ lock = t
    /\ Len(calls) >= MaxRequestsPerMinute
    /\ Len(request_times) >= MaxRequestsPerMinute

(***************************************************************************)
(* Claims about the request helpers (checked under SpecFetch).             *)
(***************************************************************************)
Retrying == fscript = "fetch_data_with_retries"
Failed == fpc = "done" /\ outcome \in {"raised", "error"}

\* A delay of about d seconds.
About(x, d) == x - d \in -1..1

C9_No429Failure ==
    /\ Failed => flast # 429
    /\ Retrying => attempt <= nhard

\* C10: a non-success, non-429 status aborts the fetch and reaches the caller
\* as an error: a helper that ended on such a response ended in a failure.
C10_HardFailureSurfaces ==
    (fpc = "done" /\ flast \notin {200, 429}) => Failed

(***************************************************************************)
(* Claims about handle_rate_limit_response (checked under SpecHandler).    *)
(***************************************************************************)
\* C18: on a 429 handle_rate_limit_response sleeps for the seconds of the
\* retry-after header (60 when the header is absent), increments
\* rate_limited_count and returns the retry signal; on any other status it
\* returns no-retry without sleeping and without changing rate_limited_count;
\* in both cases request_times and total_requests are left as they were.
C18_HandlerContract ==
    hcalls > 0 =>
        /\ hlast.status = 429 =>
              /\ hlast.ret = TRUE
              /\ rate_limited_count = hlast.count_before + 1
              /\ hlast.header = NoHeader => clock = hlast.clock_before + 60
              /\ hlast.header # NoHeader => clock = hlast.clock_before + hlast.header
        /\ hlast.status # 429 =>
              /\ hlast.ret = FALSE
              /\ rate_limited_count = hlast.count_before
              /\ clock = hlast.clock_before
        /\ request_times = hlast.times_before
        /\ total_requests = hlast.total_before

\* A 429 without the header came after another response, with calls recorded.
C18_Witness ==
    /\ hcalls > 1
    /\ hlast.status = 429
    /\ hlast.header = NoHeader
    /\ hlast.times_before # <<>>

(***************************************************************************)
(* Claims about main() (checked under SpecMain).                           *)
(***************************************************************************)
MainEnded == mresult \in {"ok", "failed"}

\* C12: the backups of one run fail independently: when main() has ended,
\* a fetch failure in one backup has aborted that backup alone, and every
\* other resource of the run was backed up.
C12_SiblingsIndependent ==
    MainEnded =>
        \A r \in Resources :
            (\E f \in Resources : f # r /\ mstate[f] = "aborted") => mstate[r] # "pending"

(***************************************************************************)
(* Claims about the dry-run mode (checked under SpecDry).                  *)
(***************************************************************************)
\* C15: in dry-run mode no mutating request is ever issued: process_users
\* sends no DELETE, whatever the listing returns, and process_ticket sends no
\* comment-redaction PUT, whatever comments match the disclaimer.
C15_DryRunSendsNothing ==
    dry_run => (deletes = 0 /\ puts = 0)

\* A dry run that found spam users, or comments holding the disclaimer.
C15_Witness ==
    /\ dry_run
    /\ dpc = "done"
    /\ spam_count >= 2
    /\ dtool = "delete_spam_users" => simulated = spam_count

(***************************************************************************)
(* Claims about the closed-tickets topic (checked under SpecPub).          *)
(***************************************************************************)
\* C16: only tickets whose status is closed are ever published to the topic:
\* a ticket that is not closed causes no publish and, in the batch script, no
\* file write and no log row.
C16_OnlyClosedPublished ==
    /\ \A i \in 1..Len(published) : published[i] = "closed"
    /\ qlast.status # "closed" =>
          /\ Len(published) = qlast.published
          /\ qfiles = qlast.files
          /\ qrows = qlast.rows

\* A solved ticket was handled after a closed one had been published.
C16_Witness ==
    /\ qlast.status = "solved"
    /\ Len(published) >= 1

(***************************************************************************)
(* Claims about the incremental-export cursor (checked under SpecCursor).  *)
(***************************************************************************)
FullyProcessed == {cfull[i] : i \in 1..Len(cfull)}

\* C14: the start-time cursor is advanced to a page's end_time only after
\* every ticket of that page has been processed by the worker pool (it is the
\* start time of the run or the end_time of a fully processed page), and the
\* value persisted to last_run.txt at the end is the end_time of the last
\* fully processed page.
C14_CursorAfterProcessing ==
    /\ cursor = FirstPage \/ cursor \in FullyProcessed
    /\ cpending > 0 => (cursor # cpage.end_time \/ cpage.end_time \in FullyProcessed
                          \/ cpage.end_time = FirstPage)
    /\ (Persists(cscript) /\ cpc = "done") =>
          /\ cfull # <<>>
          /\ last_run = cfull[Len(cfull)]

\* last_run.txt was written after two pages, the second one with tickets.
C14_Witness ==
    /\ Persists(cscript)
    /\ cpc = "done"
    /\ Len(cfull) >= 2
    /\ cpage.n > 0
    /\ last_run > FirstPage

(***************************************************************************)
(* Claims about one run of backup_tickets (checked under SpecRun).         *)
(***************************************************************************)
RunDone == rpc = "done"
RowsWith(rows, status) == {i \in 1..Len(rows) : rows[i].status = status}
RowsOfFate(rows, fate) == {i \in 1..Len(rows) : rows[i].fate = fate}

\* C11: after a run, the CSV log holds exactly one row per ticket listed in
\* this run, in the order of the listing, and no row from an earlier run; a
\* ticket that is cached and current has a row with status cached, and a
\* ticket that is fetched and saved has a row with status downloaded.
C11_OneRowPerListedTicket ==
    RunDone =>
        /\ Len(rlogfile) = rlisted
        /\ \A i \in 1..Len(rlogfile) : rlogfile[i].id = i
        /\ RowsOfFate(rlogfile, "cached") = RowsWith(rlogfile, "cached")
        /\ RowsOfFate(rlogfile, "downloaded") \subseteq RowsWith(rlogfile, "downloaded")

\* Three pages or more were listed, 2 tickets cached and the others downloaded.
C11_Witness ==
    /\ RunDone
    /\ rlisted = MaxRunTickets
    /\ rpages >= 3
    /\ Cardinality(RowsOfFate(rlogfile, "cached")) = 2
    /\ Cardinality(RowsOfFate(rlogfile, "downloaded")) = MaxRunTickets - 2

\* C13: a failure while processing one record (failing to fetch its details
\* or to write its file) becomes a log row with status error for that record,
\* and every other record is still processed.
C13_FailureIsErrorRow ==
    /\ \A i \in 1..Len(rlog) :
          rlog[i].fate \in {"fetch_failed", "save_failed"} => rlog[i].status = "error"
    /\ RunDone => Len(rlog) = rlisted

\* C20: the totals reported at the end of backup_tickets equal the numbers of
\* log rows with status cached and downloaded.
C20_TotalsMatchRows ==
    RunDone =>
        /\ total_cached = Cardinality(RowsWith(rlog, "cached"))
        /\ total_downloaded = Cardinality(RowsWith(rlog, "downloaded"))

(***************************************************************************)
(* Claims about the worker pools.                                          *)
(***************************************************************************)
\* Tasks of the page in hand whose row is not in the page's results yet.
Uncollected == {i \in 1..Len(rresults) : rresults[i] = NoRow}

C24_NoTruncatedCache ==
    \A i \in 1..Len(rlog) :
        /\ rlog[i].cache # "truncated"
        /\ rlog[i].status = "downloaded" => rlog[i].cache = "complete"

(***************************************************************************)
(* Claims about the lifecycle of a cache entry.                            *)
(***************************************************************************)
\* C21: in backup_zendesk_all (tickets and users) a task never deletes the
\* cache file of its record, leaves it unchanged when the gate says skip,
\* and changes it only when there was none, when it could not be read, or
\* when the remote updated_at is newer than the cached one.
C21_CreateOrOverwriteOnly ==
    (TaskRan /\ gscript \in {"all_tickets", "all_users"}) =>
        LET old == glast.before
            new == cache[glast.id]
        IN /\ old # Absent => new # Absent
           /\ glast.gate = "skip" => new = old
           /\ new # old =>
                 \/ old \in {Absent, Corrupt}
                 \/ old.updated_at < glast.updated_at

(***************************************************************************)
(* Claims about the files of a collection.                                 *)
(***************************************************************************)
SavedAssets == {i \in 1..Len(alog) : alog[i].saved}

\* C22: distinct records are stored in distinct files: every support asset
\* logged as saved has its own file, which holds that asset, and the files
\* written are as many as the assets saved.
C22_OneFilePerRecord ==
    /\ \A i \in SavedAssets : afiles[alog[i].file] = [kind |-> "asset", id |-> alog[i].id]
    /\ \A i, j \in SavedAssets : i # j => alog[i].file # alog[j].file
    /\ Cardinality({f \in AssetFiles : \E i \in SavedAssets :
                           afiles[f] = [kind |-> "asset", id |-> alog[i].id]})
         = Cardinality(SavedAssets)

(***************************************************************************)
(* Claims about the admission of requests.                                 *)
(***************************************************************************)
\* C25: in fetch_data, get_ticket_events and make_api_request every request
\* sent, a retry after a 429 included, follows its own wait_if_needed():
\* the requests sent never outnumber the admissions.
C25_EveryRequestAdmitted ==
    fscript \in {"fetch_data_with_retries", "get_ticket_events", "make_api_request"} =>
        requests <= waits

(***************************************************************************)
(* Claims about a back-off that the server asks for.                       *)
(***************************************************************************)
\* C26: while a thread sleeps inside handle_rate_limit_response it holds the
\* lock, no thread is inside wait_if_needed or another handler call, no call
\* of wait_if_needed or of the handler has completed since it took the lock,
\* and every admission after it comes no earlier than the end of its sleep.
C26_BackoffPausesAll ==
    \A t \in Workers :
        /\ hpc[t] = "sleeping" =>
              /\ lock = t
              /\ \A u \in Workers : wpc[u] = "idle" /\ (u # t => hpc[u] = "idle")
              /\ Len(calls) = hsnap.calls
              /\ hcalls = hsnap.hcalls
        /\ \A i \in CallIds : i > hsnap.calls => calls[i].ret >= hsnap.wake

\* A thread was admitted after a back-off that began after earlier admissions
\* and after the clock had moved.
C26_Witness ==
    /\ \A t \in Workers : hpc[t] = "idle"
    /\ hsnap.wake > DefaultRetryAfter
    /\ hsnap.calls > 0
    /\ Len(calls) > hsnap.calls

(***************************************************************************)
(* Claims about the pages of the closed-tickets Pub/Sub script.            *)
(***************************************************************************)
\* C27: the closed-tickets Pub/Sub script hands the tickets of an endpoint
\* to download_ticket at most once per run: no endpoint is answered with a
\* page of tickets twice.
C27_EndpointProcessedOnce ==
    pscript = "pubsub" =>
        \A i, j \in 1..Len(pfetched) :
            (i # j /\ pfetched[i].n > 0 /\ pfetched[j].n > 0) =>
                pfetched[i].endpoint # pfetched[j].endpoint

(***************************************************************************)
(* Claims about the cursor and the failures of a run.                      *)
(***************************************************************************)
\* C28: the cursor written to last_run.txt is never past a ticket whose row
\* has status error: the next run, which lists the tickets updated since
\* last_run, lists that ticket again.
C28_CursorNotPastError ==
    (Persists(cscript) /\ cpc = "done" /\ cerr # NullPage) => last_run <= cerr

\* C29: when a request for a page of tickets gets a non-200, non-429 status,
\* backup_tickets returns the failure, last_run.txt is what it was before the
\* run and no log is saved.
C29_FailureLeavesCursor ==
    (Persists(cscript) /\ cpage.status = 500) =>
        /\ cpc = "failed"
        /\ last_run = FirstPage
        /\ ~csaved

\* The request failed after a page of tickets had been processed and the
\* cursor of the run had moved on.
C29_Witness ==
    /\ Persists(cscript)
    /\ cpc = "failed"
    /\ cfull # <<>>
    /\ cursor > FirstPage

(***************************************************************************)
(* Claims about the rotation of the log files.                             *)
(***************************************************************************)
\* C30: after any number of runs on one day the current log is that of the
\* last run, suffix _k (k from 1 to MAX_LOG_FILES) holds the log of the k-th
\* most recent earlier run when there were that many and does not exist
\* otherwise, and no log has a higher suffix: only logs older than the
\* MAX_LOG_FILES most recent earlier ones are discarded.
C30_RotationKeepsLastFive ==
    LET n == Len(lhist)
    IN /\ lfiles[0] = IF n = 0 THEN NoLog ELSE lhist[n]
       /\ \A k \in 1..MAX_LOG_FILES : lfiles[k] = IF n > k THEN lhist[n - k] ELSE NoLog
       /\ lfiles[MAX_LOG_FILES + 1] = NoLog
       /\ Cardinality({k \in LogSlots \ {0} : lfiles[k] # NoLog}) <= MAX_LOG_FILES

\* A seventh run has written its log, at a later time than the first: the
\* oldest log has been discarded.
C30_Witness ==
    /\ Len(lhist) >= MAX_LOG_FILES + 2
    /\ lhist[Len(lhist)].time > lhist[1].time
    /\ lfiles[MAX_LOG_FILES] # NoLog

====
